---- MODULE Spec2Model ----
(***************************************************************************)
(* Scheduled-poll bot (telegram_poll_bot.py): the polls table, the         *)
(* delivery routine send_poll_from_row, its three callers (periodic_check, *)
(* daily_job_callback, the admin 'send:' callback) and the admin lifecycle *)
(* callbacks, as one state machine.  A step of the machine is the code     *)
(* that runs between two awaits of the asyncio event loop.                 *)
(***************************************************************************)
EXTENDS Integers, Sequences, FiniteSets, TLC

VARIABLES
    started,    \* main() has run schedule_jobs and registered the handlers
    polls,      \* the polls table: poll id -> stored columns
    jobs,       \* the run_daily jobs of the job queue: <<pid, t>> in creation order
    fired,      \* the daily jobs that have already run today
    now,        \* time.time(), in seconds
    adv,        \* number of clock advances so far
    task,       \* per coroutine: where it is suspended inside send_poll_from_row
    tick,       \* periodic_check's locals: rows, position in the scan, now
    nextMsg,    \* the message_id the gateway gives to the next message
    sent,       \* every message the gateway accepted
    chat,       \* message ids present in the chat
    pinMsg,     \* the pinned message of the chat
    panel,      \* the admin panel message: the polls its keyboard offers
    answer,     \* the text of the last query.answer of on_callback
    seq,        \* the last id the table's AUTOINCREMENT / SERIAL gave out
    conv,       \* the state of the user's creation conversation
    user_data,  \* context.user_data of the user
    mig         \* migrate_sqlite_to_postgres.py: the SQLite table and the run

vars == <<started, polls, jobs, fired, now, adv, task, tick, nextMsg, sent,
          chat, pinMsg, panel, answer, seq, conv, user_data, mig>>

\* the variables of the creation conversation
convVars == <<seq, conv, user_data>>

(***************************************************************************)
(* Bounds of the model.                                                    *)
(***************************************************************************)
MaxAdvance == 1      \* clock advances in a run
MaxMsgs == 3         \* messages the gateway accepts in a run

PollIds == {1, 2}
ClockSteps == {59, 60}

(***************************************************************************)
(* Values.                                                                 *)
(***************************************************************************)
NULL == 0                \* SQL NULL / Python None in an integer column
NoTimes == <<>>          \* SQL NULL in schedule_times
NoRow == <<>>            \* get_poll: None
SecPerMin == 60          \* mins*60 in periodic_check
StartTime == 1 * SecPerMin   \* the clock when the process starts (00:01:00)
MinPerDay == 24 * 60

\* Python truthiness of an integer/None value: `if v`, `not v`, bool(v)
Truthy(v) == v # NULL /\ v # 0

TICK == 0 - 1            \* the periodic_check job
ADMIN == 0               \* the update handler running on_callback
MaxJobs == 2 * Cardinality(PollIds)
Tasks == {TICK, ADMIN} \cup (1..MaxJobs)

\* the entry point a coroutine runs
Entry(k) == IF k = TICK THEN "tick" ELSE IF k = ADMIN THEN "admin" ELSE "daily"

Idle == [pc |-> "idle", row |-> NoRow, msg |-> NULL]

(***************************************************************************)
(* The polls table and the DB helpers.                                     *)
(***************************************************************************)
\* add_poll: the row INSERTed for a new poll
NewPoll(interval_minutes, schedule_times, pinned, delete_previous) ==
    [chat_id |-> 1, question |-> "q", options |-> <<"a", "b">>,
     interval_minutes |-> interval_minutes,
     schedule_times |-> IF schedule_times # <<>> THEN schedule_times ELSE NoTimes,
     pinned |-> IF pinned THEN 1 ELSE 0,
     last_sent |-> 0, last_message_id |-> NULL,
     delete_previous |-> IF delete_previous THEN 1 ELSE 0,
     active |-> 1, creator_id |-> 1]

\* SELECT id,chat_id,question,options,interval_minutes,schedule_times,pinned,
\*        last_sent,last_message_id,delete_previous,active,creator_id
Row12(P, pid) ==
    <<pid, P[pid].chat_id, P[pid].question, P[pid].options,
      P[pid].interval_minutes, P[pid].schedule_times, P[pid].pinned,
      P[pid].last_sent, P[pid].last_message_id, P[pid].delete_previous,
      P[pid].active, P[pid].creator_id>>

\* SELECT id,chat_id,question,options,interval_minutes,schedule_times,pinned,
\*        last_sent,active,creator_id
Row10(P, pid) ==
    <<pid, P[pid].chat_id, P[pid].question, P[pid].options,
      P[pid].interval_minutes, P[pid].schedule_times, P[pid].pinned,
      P[pid].last_sent, P[pid].active, P[pid].creator_id>>

\* the ids of the table in rowid order
RECURSIVE IdsFrom(_, _)
IdsFrom(P, S) ==
    IF S = {} THEN <<>>
    ELSE LET m == CHOOSE x \in S : \A y \in S : x <= y
         IN  <<m>> \o IdsFrom(P, S \ {m})

\* execute("SELECT ... FROM polls"): every row, ten columns each
SelectAll(P) ==
    LET ids == IdsFrom(P, DOMAIN P)
    IN  [i \in 1..Len(ids) |-> Row10(P, ids[i])]

get_poll(P, pid) == IF pid \in DOMAIN P THEN Row12(P, pid) ELSE NoRow

update_last_sent(P, pid, ts) ==
    IF pid \in DOMAIN P THEN [P EXCEPT ![pid].last_sent = ts] ELSE P

\* the bookkeeping write as an insert-or-update
upsert_last_sent_and_message(P, pid, ts, message_id) ==
    IF pid \in DOMAIN P
    THEN [P EXCEPT ![pid].last_sent = ts, ![pid].last_message_id = message_id]
    ELSE P @@ (pid :> [NewPoll(NULL, NoTimes, FALSE, FALSE) EXCEPT
                         !.last_sent = ts, !.last_message_id = message_id])

update_last_sent_and_message(P, pid, ts, message_id) ==
    IF pid \in DOMAIN P
    THEN [P EXCEPT ![pid].last_sent = ts, ![pid].last_message_id = message_id]
    ELSE P

set_active(P, pid, active) ==
    IF pid \in DOMAIN P
    THEN [P EXCEPT ![pid].active = IF active THEN 1 ELSE 0]
    ELSE P

delete_poll_db(P, pid) == [q \in (DOMAIN P) \ {pid} |-> P[q]]

(***************************************************************************)
(* valid_times_list: the answer is split at commas, empty parts dropped,   *)
(* each part parsed by dateutil and written back as HH:MM.  A part is one  *)
(* of a few texts; a time is the pair <<hour, minute>>.                    *)
(***************************************************************************)
TimeTexts == {"00:01", "0:01", "x", ""}

\* dateutil.parser.parse(p).strftime("%H:%M"); <<>> when parse raises
ParseTime(p) ==
    CASE p = "00:01" -> <<0, 1>>
      [] p = "0:01"  -> <<0, 1>>
      [] OTHER       -> <<>>

\* the value None of valid_times_list
Invalid == <<<<>>>>

RECURSIVE ParseParts(_)
ParseParts(parts) ==
    IF parts = <<>> THEN <<>>
    ELSE LET rest == ParseParts(Tail(parts))
         IN  IF ParseTime(Head(parts)) = <<>> \/ rest = Invalid
             THEN Invalid
             ELSE <<ParseTime(Head(parts))>> \o rest

valid_times_list(text) ==
    ParseParts(SelectSeq(text, LAMBDA p : p # ""))

\* set_schedule_times accepts the answer: `if not times` is false
TimesAccepted(text) ==
    valid_times_list(text) # Invalid /\ valid_times_list(text) # <<>>

\* the answers tried: one or two comma separated parts
TimeAnswers == UNION {[1..n -> TimeTexts] : n \in {1, 2}}

\* minute of the day of a stored HH:MM (hh,mm = map(int, t.split(":")))
MinuteOf(t) == t[1] * 60 + t[2]
\* minute of the day of the clock
MinuteNow(ts) == (ts \div SecPerMin) % MinPerDay

(***************************************************************************)
(* schedule_jobs: one run_daily job per stored time of every active poll   *)
(* that has schedule_times, in table order; a time stored twice gives two  *)
(* jobs.                                                                   *)
(***************************************************************************)
JobsOfRow(row) ==
    IF Truthy(row[9]) /\ row[6] # NoTimes
    THEN [i \in 1..Len(row[6]) |-> [pid |-> row[1], t |-> row[6][i]]]
    ELSE <<>>

RECURSIVE JobsOfRows(_, _)
JobsOfRows(rows, i) ==
    IF i > Len(rows) THEN <<>>
    ELSE JobsOfRow(rows[i]) \o JobsOfRows(rows, i + 1)

schedule_jobs(P) == JobsOfRows(SelectAll(P), 1)

(***************************************************************************)
(* periodic_check: the due test and the scan of the rows.                  *)
(***************************************************************************)
\* the due test with the boundary excluded
IsDueStrict(mins, last_sent, tnow) ==
    Truthy(mins) /\ (last_sent = 0 \/ tnow > last_sent + mins * SecPerMin)

\* mins and (last_sent==0 or now >= last_sent + mins*60)
IsDue(mins, last_sent, tnow) ==
    Truthy(mins) /\ (last_sent = 0 \/ tnow >= last_sent + mins * SecPerMin)

\* what the scan notes about a row it evaluates
Eval(row, tnow, called) ==
    [pid |-> row[1], mins |-> row[5], last_sent |-> row[8], active |-> row[9],
     now |-> tnow, called |-> called]

\* The for loop of periodic_check from row i on, with the table P, up to the
\* point where it ends, raises or suspends inside send_poll_from_row:
\*   pc "idle": the tick is over (raised: by an exception), pc "send": it is
\*   suspended in the gateway call for row i.
RECURSIVE Scan(_, _, _, _)
Scan(P, rows, i, tnow) ==
    IF i > Len(rows)
    THEN [P |-> P, pc |-> "idle", i |-> i, raised |-> FALSE, ev |-> {}]
    ELSE
      LET row == rows[i] IN
      IF Len(row) # 10
      THEN \* pid, chat_id, ..., creator = row : ValueError
           [P |-> P, pc |-> "idle", i |-> i, raised |-> TRUE, ev |-> {}]
      ELSE IF ~Truthy(row[9])
      THEN LET r == Scan(P, rows, i + 1, tnow)
           IN  [r EXCEPT !.ev = r.ev \cup {Eval(row, tnow, FALSE)}]
      ELSE IF ~IsDue(row[5], row[8], tnow)
      THEN LET r == Scan(P, rows, i + 1, tnow)
           IN  [r EXCEPT !.ev = r.ev \cup {Eval(row, tnow, FALSE)}]
      ELSE \* await send_poll_from_row(context, row)
           IF Len(row) # 12
           THEN \* the 12-name unpacking of send_poll_from_row: ValueError,
                \* raised out of periodic_check
                [P |-> P, pc |-> "idle", i |-> i, raised |-> TRUE,
                 ev |-> {Eval(row, tnow, TRUE)}]
           ELSE IF ~Truthy(row[11])
           THEN LET r == Scan(update_last_sent(P, row[1], tnow), rows, i + 1, tnow)
                IN  [r EXCEPT !.ev = r.ev \cup {Eval(row, tnow, TRUE)}]
           ELSE [P |-> P, pc |-> "send", i |-> i, raised |-> FALSE,
                 ev |-> {Eval(row, tnow, TRUE)}]

NoTick == [rows |-> <<>>, i |-> 0, now |-> 0]

\* the tick's variables after a scan result r
TickAfter(r, rows, tnow) ==
    /\ polls' = r.P
    /\ task' = [task EXCEPT ![TICK] =
                  IF r.pc = "send"
                  THEN [pc |-> "send", row |-> rows[r.i], msg |-> NULL]
                  ELSE Idle]
    /\ tick' = IF r.pc = "send" THEN [rows |-> rows, i |-> r.i, now |-> tnow]
               ELSE NoTick

(***************************************************************************)
(* send_poll_from_row and its callers.                                     *)
(***************************************************************************)
\* the caller's write with a time stamp taken when the process started
ReturnedStale(k, pid, P) ==
    IF k = TICK
    THEN LET r == Scan(update_last_sent(P, pid, tick.now), tick.rows,
                       tick.i + 1, tick.now)
         IN  TickAfter(r, tick.rows, tick.now)
    ELSE /\ polls' = update_last_sent(P, pid, StartTime)
         /\ task' = [task EXCEPT ![k] = Idle]
         /\ UNCHANGED tick

\* send_poll_from_row has returned to its caller k (the table being P):
\* the caller's update_last_sent, then the rest of the caller.
Returned(k, pid, P) ==
    IF k = TICK
    THEN LET r == Scan(update_last_sent(P, pid, tick.now), tick.rows,
                       tick.i + 1, tick.now)
         IN  TickAfter(r, tick.rows, tick.now)
    ELSE /\ polls' = update_last_sent(P, pid, now)
         /\ task' = [task EXCEPT ![k] = Idle]
         /\ UNCHANGED tick

\* the pin call issued before the bookkeeping write
BookAfterPin(k, mid, P) ==
    LET row == task[k].row
    IN  IF Truthy(row[7])
           THEN /\ polls' = P
                /\ task' = [task EXCEPT ![k] = [pc |-> "pin", row |-> row, msg |-> mid]]
                /\ UNCHANGED tick
           ELSE Returned(k, row[1],
                         update_last_sent_and_message(P, row[1], now, mid))

\* update_last_sent_and_message, then the pin call or the return
Book(k, mid, P) ==
    LET row == task[k].row
        P1  == update_last_sent_and_message(P, row[1], now, mid)
    IN  IF Truthy(row[7])
           THEN /\ polls' = P1
                /\ task' = [task EXCEPT ![k] = [pc |-> "pin", row |-> row, msg |-> mid]]
                /\ UNCHANGED tick
           ELSE Returned(k, row[1], P1)

\* a delete_message exception that ends the delivery
AfterDeleteFatal(k, mid, ok) ==
    IF ok THEN Book(k, mid, polls)
    ELSE Returned(k, task[k].row[1], polls)

\* The table after the delete_message call of a delivery came back (ok or
\* with an exception, which is logged): the bookkeeping write follows in
\* both cases.
AfterDelete(k, mid, ok) == Book(k, mid, polls)

\* send_poll_from_row without the `if not active: return` test
CallPaused(k, row) ==
    IF Len(row) # 12
    THEN /\ task' = [task EXCEPT ![k] = Idle]
         /\ UNCHANGED <<polls, tick>>
    ELSE /\ task' = [task EXCEPT ![k] = [pc |-> "send", row |-> row, msg |-> NULL]]
         /\ UNCHANGED <<polls, tick>>

\* a caller with a 12-column row enters send_poll_from_row
Call(k, row) ==
    IF Len(row) # 12
    THEN \* the 12-name unpacking raises ValueError out of the caller
         /\ task' = [task EXCEPT ![k] = Idle]
         /\ UNCHANGED <<polls, tick>>
    ELSE IF ~Truthy(row[11])
    THEN \* if not active: return
         Returned(k, row[1], polls)
    ELSE /\ task' = [task EXCEPT ![k] = [pc |-> "send", row |-> row, msg |-> NULL]]
         /\ UNCHANGED <<polls, tick>>

(***************************************************************************)
(* The gateway: chat members and the admin check.                          *)
(***************************************************************************)
Users == {"owner", "admin", "anon", "member"}
\* the users that press buttons of the panel
Pressers == {"admin", "member"}

\* get_chat_member(chat_id, user_id): status and is_anonymous
Member(u) ==
    CASE u = "owner" -> [status |-> "creator", is_anonymous |-> FALSE]
      [] u = "admin" -> [status |-> "administrator", is_anonymous |-> FALSE]
      [] u = "anon"  -> [status |-> "administrator", is_anonymous |-> TRUE]
      [] OTHER       -> [status |-> "member", is_anonymous |-> FALSE]

\* is_user_admin; gw = FALSE when get_chat_member raises
is_user_admin(u, gw) ==
    IF ~gw THEN FALSE
    ELSE IF Member(u).status \in {"creator", "owner"} THEN TRUE
    ELSE IF Member(u).status = "administrator"
         THEN ~Member(u).is_anonymous
         ELSE FALSE

\* no panel message in the chat
NoPanel == {}

\* query.answer() without a text, and no answer yet
NoAnswer == ""

\* The 'send:' callback answers when send_poll_from_row has returned to it
\* and update_last_sent is done: coroutine k's step ends the delivery.
SendAnswered(k) ==
    answer' = IF k = ADMIN /\ task'[k].pc = "idle"
              THEN "Sondaggio inviato"
              ELSE answer

(***************************************************************************)
(* The creation conversation: /createpoll, then one handler per answer.    *)
(***************************************************************************)
END == "END"             \* ConversationHandler.END: no conversation

\* user_data before any conversation: every .get() gives None
NoData == [question |-> "", options |-> <<>>, interval |-> NULL,
           times |-> NoTimes, pinned |-> FALSE]

\* the chats /createpoll comes from
ChatTypes == {"private", "group"}

\* o.strip() of a part of the options answer
Strip(o) ==
    CASE o = " "  -> ""
      [] o = " b" -> "b"
      [] OTHER    -> o

\* options answers, split at the commas
OptionAnswers ==
    {<<"a">>, <<"a", " ">>, <<"a", " b">>, <<"a", "", "b">>,
     [i \in 1..11 |-> "a"]}

\* opts = [o.strip() for o in text.split(",") if o.strip()]
OptsOf(parts) ==
    SelectSeq([i \in 1..Len(parts) |-> Strip(parts[i])], LAMBDA o : o # "")

\* flow-choice answers and the first letter of txt.strip().lower()
FlowAnswers == {"interval", "Times", "x"}
FirstLower(txt) ==
    CASE txt = "interval" -> "i"
      [] txt = "Times"    -> "t"
      [] OTHER            -> "x"

\* interval answers; int(text): <<n>>, or <<>> when int() raises
IntervalAnswers == {"1", "0", "x"}
ParseInt(txt) ==
    CASE txt = "1" -> <<1>>
      [] txt = "0" -> <<0>>
      [] OTHER     -> <<>>

\* yes/no answers; text.strip().lower() in ('si','s','yes','y')
YesNoAnswers == {"si", "no"}
IsYes(txt) == txt \in {"si", "s", "yes", "y"}

\* add_poll: INSERT of the row, the table giving it the next id
add_poll(P, pid, question, options, mins, times, pinned, delete_previous) ==
    P @@ (pid :> [NewPoll(mins, times, pinned, delete_previous)
                    EXCEPT !.question = question, !.options = options])

(***************************************************************************)
(* migrate_sqlite_to_postgres.py: the rows of the SQLite table are copied  *)
(* into the Postgres table (polls) in one transaction.                     *)
(***************************************************************************)
\* the %s placeholders of the INSERT's VALUES list
Placeholders == 11

\* no run of the script and no SQLite table
NoMig == [pc |-> "idle", src |-> <<>>, pg0 |-> <<>>, rows |-> <<>>, i |-> 0,
          tx |-> <<>>]

\* scur.execute("SELECT id,chat_id,... FROM polls"); fetchall()
SelectAll12(P) ==
    LET ids == IdsFrom(P, DOMAIN P)
    IN  [i \in 1..Len(ids) |-> Row12(P, ids[i])]

\* bool(v) if v is not None else False
BoolOf(v) == IF Truthy(v) THEN 1 ELSE 0

\* the parameters of the INSERT for row r
InsertParams(r) ==
    <<r[1], r[2], r[3], r[4], r[5], r[6], BoolOf(r[7]), r[8], r[9],
      BoolOf(r[10]), r[11], r[12]>>

\* the row the INSERT's column list makes of its values
RowOf(v) ==
    [chat_id |-> v[2], question |-> v[3], options |-> v[4],
     interval_minutes |-> v[5], schedule_times |-> v[6], pinned |-> v[7],
     last_sent |-> v[8], last_message_id |-> v[9], delete_previous |-> v[10],
     active |-> v[11], creator_id |-> v[12]]

\* pcur.execute(query, params): the query is formatted with the parameters
\* (query % params); TypeError unless there is one placeholder per parameter
Formats(params) == Len(params) = Placeholders

(***************************************************************************)
(* Initial state: the process is about to run main(); the table holds the  *)
(* polls earlier runs created with add_poll.                               *)
(***************************************************************************)
Intervals == {1}

NewPolls ==
    {NewPoll(m, NoTimes, pn, dp) : m \in Intervals, pn \in BOOLEAN, dp \in BOOLEAN}
    \cup
    {NewPoll(NULL, valid_times_list(a), pn, dp) :
        a \in {x \in TimeAnswers : TimesAccepted(x)}, pn \in BOOLEAN, dp \in BOOLEAN}

\* The tables the process may find: empty, one poll with an interval or one
\* daily time and any flags, one poll of any kind without flags, or two
\* interval polls.
Tables ==
    UNION {[S -> {q \in NewPolls : Len(q.schedule_times) <= 1}] : S \in SUBSET {1}}
    \cup [{1} -> {q \in NewPolls : q.pinned = 0 /\ q.delete_previous = 0}]
    \cup {[p \in PollIds |-> NewPoll(m, NoTimes, FALSE, FALSE)] : m \in Intervals}

Init ==
    /\ started = FALSE
    /\ polls \in Tables
    /\ jobs = <<>>
    /\ fired = {}
    /\ now = StartTime
    /\ adv = 0
    /\ task = [k \in Tasks |-> Idle]
    /\ tick = NoTick
    /\ nextMsg = 1
    /\ sent = {}
    /\ chat = {}
    /\ pinMsg = NULL
    /\ panel = NoPanel
    /\ answer = NoAnswer
    /\ seq = Cardinality(DOMAIN polls)
    /\ conv = END
    /\ user_data = NoData
    /\ mig = NoMig

\* main(): init_db, handlers, schedule_jobs(app), run_repeating(periodic_check)
Main ==
    /\ ~started
    /\ started' = TRUE
    /\ jobs' = schedule_jobs(polls)
    /\ UNCHANGED <<polls, fired, now, adv, task, tick, nextMsg, sent, chat,
                   pinMsg, panel, answer>>
    /\ UNCHANGED convVars
    /\ UNCHANGED mig

\* The clock moves on by about a minute.  No gateway call is pending that
\* long: the bot's HTTP requests time out after a few seconds.
Advance(d) ==
    /\ started
    /\ adv < MaxAdvance
    /\ \A k \in Tasks : task[k].pc = "idle"
    /\ now' = now + d
    /\ adv' = adv + 1
    /\ UNCHANGED <<started, polls, jobs, fired, task, tick, nextMsg, sent,
                   chat, pinMsg, panel, answer>>
    /\ UNCHANGED convVars
    /\ UNCHANGED mig

(***************************************************************************)
(* Entry points of a delivery.                                             *)
(***************************************************************************)
\* the job queue runs periodic_check
periodic_check ==
    /\ started
    /\ task[TICK].pc = "idle"
    /\ LET rows == SelectAll(polls)
           r    == Scan(polls, rows, 1, now)
       IN  TickAfter(r, rows, now)
    /\ UNCHANGED <<started, jobs, fired, now, adv, nextMsg, sent, chat,
                   pinMsg, panel, answer>>
    /\ UNCHANGED convVars
    /\ UNCHANGED mig

\* the job queue runs daily job j at its HH:MM
daily_job_callback(j) ==
    /\ started
    /\ j \in 1..Len(jobs)
    /\ j \notin fired
    /\ task[j].pc = "idle"
    /\ MinuteNow(now) = MinuteOf(jobs[j].t)
    /\ fired' = fired \cup {j}
    /\ LET row == get_poll(polls, jobs[j].pid)
       IN  IF row # NoRow
           THEN Call(j, row)
           ELSE UNCHANGED <<polls, task, tick>>
    /\ UNCHANGED <<started, jobs, now, adv, nextMsg, sent, chat, pinMsg,
                   panel, answer>>
    /\ UNCHANGED convVars
    /\ UNCHANGED mig

(***************************************************************************)
(* The gateway calls of send_poll_from_row come back.                      *)
(***************************************************************************)

\* await context.bot.send_poll(...) returns a message
SendOk(k) ==
    /\ task[k].pc = "send"
    /\ nextMsg <= MaxMsgs
    /\ LET row == task[k].row
           mid == nextMsg
       IN  /\ nextMsg' = nextMsg + 1
           /\ sent' = sent \cup {[pid |-> row[1], mid |-> mid, win |-> MinuteNow(now), by |-> Entry(k)]}
           /\ chat' = chat \cup {mid}
           /\ IF Truthy(row[10]) /\ Truthy(row[9])
              THEN \* await context.bot.delete_message(last_message_id)
                   /\ task' = [task EXCEPT ![k] =
                                 [pc |-> "delete", row |-> row, msg |-> mid]]
                   /\ UNCHANGED <<polls, tick>>
              ELSE Book(k, mid, polls)
    /\ SendAnswered(k)
    /\ UNCHANGED <<started, jobs, fired, now, adv, pinMsg, panel>>
    /\ UNCHANGED convVars
    /\ UNCHANGED mig

\* await context.bot.send_poll(...) raises: logged by the outer except,
\* send_poll_from_row returns
SendFail(k) ==
    /\ task[k].pc = "send"
    /\ Returned(k, task[k].row[1], polls)
    /\ SendAnswered(k)
    /\ UNCHANGED <<started, jobs, fired, now, adv, nextMsg, sent, chat, pinMsg,
                   panel>>
    /\ UNCHANGED convVars
    /\ UNCHANGED mig

\* delete_message of the previous message succeeds
DeleteOk(k) ==
    /\ task[k].pc = "delete"
    /\ task[k].row[9] \in chat
    /\ chat' = chat \ {task[k].row[9]}
    /\ pinMsg' = IF pinMsg = task[k].row[9] THEN NULL ELSE pinMsg
    /\ AfterDelete(k, task[k].msg, TRUE)
    /\ SendAnswered(k)
    /\ UNCHANGED <<started, jobs, fired, now, adv, nextMsg, sent, panel>>
    /\ UNCHANGED convVars
    /\ UNCHANGED mig

\* delete_message raises (the message is gone already, or the call fails):
\* logged by the inner except
DeleteFail(k) ==
    /\ task[k].pc = "delete"
    /\ AfterDelete(k, task[k].msg, FALSE)
    /\ SendAnswered(k)
    /\ UNCHANGED <<started, jobs, fired, now, adv, nextMsg, sent, chat, pinMsg,
                   panel>>
    /\ UNCHANGED convVars
    /\ UNCHANGED mig

\* pin_chat_message succeeds
PinOk(k) ==
    /\ task[k].pc = "pin"
    /\ task[k].msg \in chat
    /\ pinMsg' = task[k].msg
    /\ Returned(k, task[k].row[1], polls)
    /\ SendAnswered(k)
    /\ UNCHANGED <<started, jobs, fired, now, adv, nextMsg, sent, chat, panel>>
    /\ UNCHANGED convVars
    /\ UNCHANGED mig

\* pin_chat_message raises: logged by the inner except
PinFail(k) ==
    /\ task[k].pc = "pin"
    /\ Returned(k, task[k].row[1], polls)
    /\ SendAnswered(k)
    /\ UNCHANGED <<started, jobs, fired, now, adv, nextMsg, sent, chat, pinMsg,
                   panel>>
    /\ UNCHANGED convVars
    /\ UNCHANGED mig

(***************************************************************************)
(* /admin and the callback queries of the panel's buttons.                 *)
(***************************************************************************)
\* admin_panel: the list of the chat's polls, for admins only
admin_panel(u, gw) ==
    /\ started
    /\ task[ADMIN].pc = "idle"
    /\ panel = NoPanel
    /\ is_user_admin(u, gw)
    /\ DOMAIN polls # {}
    /\ panel' = DOMAIN polls
    /\ UNCHANGED <<started, polls, jobs, fired, now, adv, task, tick, nextMsg,
                   sent, chat, pinMsg, answer>>
    /\ UNCHANGED convVars
    /\ UNCHANGED mig

\* The panel message offers the button: any member of the chat can press
\* "view:<pid>" on the list and then the buttons of that poll's view.
Button(data, pid) ==
    \/ data = "close" /\ panel # NoPanel
    \/ data \in {"view", "send", "del", "toggle"} /\ pid \in panel

\* on_callback, data == "close"
cb_close(u) ==
    /\ panel' = NoPanel
    /\ UNCHANGED <<polls, task, tick, answer>>

\* on_callback, data "view:<pid>"
cb_view(u, pid) ==
    /\ answer' = IF get_poll(polls, pid) = NoRow
                 THEN "Sondaggio non trovato"
                 ELSE NoAnswer
    /\ UNCHANGED <<polls, panel, task, tick>>

\* on_callback, data "send:<pid>"
cb_send(u, pid) ==
    /\ LET row == get_poll(polls, pid)
       IN  IF row # NoRow
           THEN Call(ADMIN, row) /\ SendAnswered(ADMIN)
           ELSE answer' = "Non trovato" /\ UNCHANGED <<polls, task, tick>>
    /\ UNCHANGED panel

\* on_callback, data "del:<pid>"
cb_del(u, pid) ==
    /\ polls' = delete_poll_db(polls, pid)
    /\ answer' = "Sondaggio eliminato"
    /\ panel' = NoPanel
    /\ UNCHANGED <<task, tick>>

\* the value on_callback reads as `active`: row[8]
ActiveOf(row) == row[9]

\* on_callback, data "toggle:<pid>"
cb_toggle(u, pid) ==
    LET row == get_poll(polls, pid)
    IN  IF row = NoRow
        THEN answer' = "Non trovato" /\ UNCHANGED <<polls, panel, task, tick>>
        ELSE /\ polls' = set_active(polls, pid, ~Truthy(ActiveOf(row)))
             /\ answer' = "Stato cambiato"
             /\ panel' = NoPanel
             /\ UNCHANGED <<task, tick>>

on_callback(u, data, pid) ==
    /\ started
    /\ task[ADMIN].pc = "idle"
    /\ Button(data, pid)
    /\ CASE data = "close"  -> cb_close(u)
         [] data = "view"   -> cb_view(u, pid)
         [] data = "send"   -> cb_send(u, pid)
         [] data = "del"    -> cb_del(u, pid)
         [] data = "toggle" -> cb_toggle(u, pid)
    /\ UNCHANGED <<started, jobs, fired, now, adv, nextMsg, sent, chat, pinMsg>>
    /\ UNCHANGED convVars
    /\ UNCHANGED mig

Datas == {"close", "view", "send", "del", "toggle"}

Next ==
    \/ Main
    \/ \E d \in ClockSteps : Advance(d)
    \/ periodic_check
    \/ \E j \in 1..MaxJobs : daily_job_callback(j)
    \/ \E k \in Tasks : SendOk(k)
    \/ \E k \in Tasks : SendFail(k)
    \/ \E k \in Tasks : DeleteOk(k)
    \/ \E k \in Tasks : DeleteFail(k)
    \/ \E k \in Tasks : PinOk(k)
    \/ \E k \in Tasks : PinFail(k)
    \/ \E u \in Users, gw \in BOOLEAN : admin_panel(u, gw)
    \/ \E u \in Pressers, data \in Datas, pid \in PollIds : on_callback(u, data, pid)

Spec == Init /\ [][Next]_vars

\* The same program with a gateway whose delete_message calls succeed.
NextDeleteOk ==
    \/ Main
    \/ \E d \in ClockSteps : Advance(d)
    \/ periodic_check
    \/ \E j \in 1..MaxJobs : daily_job_callback(j)
    \/ \E k \in Tasks : SendOk(k)
    \/ \E k \in Tasks : SendFail(k)
    \/ \E k \in Tasks : DeleteOk(k)
    \/ \E k \in Tasks : PinOk(k)
    \/ \E k \in Tasks : PinFail(k)
    \/ \E u \in Users, gw \in BOOLEAN : admin_panel(u, gw)
    \/ \E u \in Pressers, data \in Datas, pid \in PollIds : on_callback(u, data, pid)

DeleteOkSpec == Init /\ [][NextDeleteOk]_vars

(***************************************************************************)
(* The handlers of the creation conversation.                              *)
(***************************************************************************)
\* what a conversation handler leaves alone
ConvFrame ==
    UNCHANGED <<started, jobs, fired, now, adv, task, tick, nextMsg, sent,
                chat, pinMsg, panel, answer, mig>>

\* /createpoll outside a conversation
createpoll_start(chat_type) ==
    /\ started
    /\ conv = END
    /\ seq < Cardinality(PollIds)
    /\ conv' = IF chat_type = "private" THEN END ELSE "Q_QUESTION"
    /\ UNCHANGED <<polls, seq, user_data>>
    /\ ConvFrame

set_question(txt) ==
    /\ conv = "Q_QUESTION"
    /\ user_data' = [user_data EXCEPT !.question = txt]
    /\ conv' = "Q_OPTIONS"
    /\ UNCHANGED <<polls, seq>>
    /\ ConvFrame

set_options(parts) ==
    /\ conv = "Q_OPTIONS"
    /\ IF Len(OptsOf(parts)) < 2
       THEN UNCHANGED <<conv, user_data>>
       ELSE /\ user_data' = [user_data EXCEPT !.options = OptsOf(parts)]
            /\ conv' = "Q_FLOWCHOICE"
    /\ UNCHANGED <<polls, seq>>
    /\ ConvFrame

set_flowchoice(txt) ==
    /\ conv = "Q_FLOWCHOICE"
    /\ conv' = CASE FirstLower(txt) = "i" -> "Q_INTERVAL"
                 [] FirstLower(txt) = "t" -> "Q_SCHEDULE"
                 [] OTHER                 -> "Q_FLOWCHOICE"
    /\ UNCHANGED <<polls, seq, user_data>>
    /\ ConvFrame

set_interval(txt) ==
    /\ conv = "Q_INTERVAL"
    /\ IF ParseInt(txt) = <<>> \/ ParseInt(txt)[1] <= 0
       THEN UNCHANGED <<conv, user_data>>
       ELSE /\ user_data' = [user_data EXCEPT !.interval = ParseInt(txt)[1]]
            /\ conv' = "Q_PIN"
    /\ UNCHANGED <<polls, seq>>
    /\ ConvFrame

set_schedule_times(txt) ==
    /\ conv = "Q_SCHEDULE"
    /\ IF ~TimesAccepted(txt)
       THEN UNCHANGED <<conv, user_data>>
       ELSE /\ user_data' = [user_data EXCEPT !.times = valid_times_list(txt)]
            /\ conv' = "Q_PIN"
    /\ UNCHANGED <<polls, seq>>
    /\ ConvFrame

set_pin(txt) ==
    /\ conv = "Q_PIN"
    /\ user_data' = [user_data EXCEPT !.pinned = IsYes(txt)]
    /\ conv' = "Q_DELETE_PREV"
    /\ UNCHANGED <<polls, seq>>
    /\ ConvFrame

set_delete_prev(txt) ==
    /\ conv = "Q_DELETE_PREV"
    /\ polls' = add_poll(polls, seq + 1, user_data.question, user_data.options,
                         user_data.interval, user_data.times,
                         user_data.pinned, IsYes(txt))
    /\ seq' = seq + 1
    /\ conv' = END
    /\ UNCHANGED user_data
    /\ ConvFrame

\* /cancel inside a conversation: the fallback returns END
cancel ==
    /\ conv # END
    /\ conv' = END
    /\ UNCHANGED <<polls, seq, user_data>>
    /\ ConvFrame

\* the process starts on an empty table
ConvInit == Init /\ polls = <<>>

ConvNext ==
    \/ Main
    \/ \E chat_type \in ChatTypes : createpoll_start(chat_type)
    \/ \E txt \in {"q"} : set_question(txt)
    \/ \E parts \in OptionAnswers : set_options(parts)
    \/ \E txt \in FlowAnswers : set_flowchoice(txt)
    \/ \E txt \in IntervalAnswers : set_interval(txt)
    \/ \E txt \in TimeAnswers : set_schedule_times(txt)
    \/ \E txt \in YesNoAnswers : set_pin(txt)
    \/ \E txt \in YesNoAnswers : set_delete_prev(txt)
    \/ cancel

ConvSpec == ConvInit /\ [][ConvNext]_vars

(***************************************************************************)
(* A run of migrate(sqlite_path, pg_dsn).                                  *)
(***************************************************************************)
\* what the script leaves alone
MigFrame ==
    UNCHANGED <<started, jobs, fired, now, adv, task, tick, nextMsg, sent,
                chat, pinMsg, panel, answer, seq, conv, user_data>>

\* migrate: the rows are read from SQLite, the Postgres connection opens
migrate_start ==
    /\ mig.pc # "loop"
    /\ mig' = [mig EXCEPT !.pc = "loop", !.pg0 = polls,
                          !.rows = SelectAll12(mig.src), !.i = 1,
                          !.tx = polls]
    /\ UNCHANGED polls
    /\ MigFrame

\* one turn of `for r in rows`: the row is skipped when its id exists, else
\* inserted
migrate_row ==
    /\ mig.pc = "loop"
    /\ mig.i <= Len(mig.rows)
    /\ LET r == mig.rows[mig.i]
           params == InsertParams(r)
       IN  mig' = IF r[1] \in DOMAIN mig.tx
                  THEN [mig EXCEPT !.i = mig.i + 1]
                  ELSE IF ~Formats(params)
                  THEN \* TypeError leaves migrate; the transaction is lost
                       [mig EXCEPT !.pc = "raised", !.tx = <<>>]
                  ELSE [mig EXCEPT !.i = mig.i + 1,
                                   !.tx = mig.tx @@ (params[1] :> RowOf(params))]
    /\ UNCHANGED polls
    /\ MigFrame

\* pconn.commit() after the loop
migrate_commit ==
    /\ mig.pc = "loop"
    /\ mig.i > Len(mig.rows)
    /\ polls' = mig.tx
    /\ mig' = [mig EXCEPT !.pc = "done", !.tx = <<>>]
    /\ MigFrame

\* the rows of the two tables
MigPolls ==
    {NewPoll(1, NoTimes, FALSE, FALSE), NewPoll(NULL, <<<<0, 1>>>>, TRUE, TRUE)}

\* the SQLite and the Postgres tables the script may find
MigTables == UNION {[S -> MigPolls] : S \in SUBSET PollIds}

MigInit ==
    /\ started = FALSE
    /\ polls \in MigTables
    /\ jobs = <<>>
    /\ fired = {}
    /\ now = StartTime
    /\ adv = 0
    /\ task = [k \in Tasks |-> Idle]
    /\ tick = NoTick
    /\ nextMsg = 1
    /\ sent = {}
    /\ chat = {}
    /\ pinMsg = NULL
    /\ panel = NoPanel
    /\ answer = NoAnswer
    /\ seq = Cardinality(DOMAIN polls)
    /\ conv = END
    /\ user_data = NoData
    /\ mig \in {[NoMig EXCEPT !.src = S] : S \in MigTables}

MigNext ==
    \/ migrate_start
    \/ migrate_row
    \/ migrate_commit

MigSpec == MigInit /\ [][MigNext]_vars

(***************************************************************************)
(* Properties.                                                             *)
(***************************************************************************)
\* the poll a coroutine is delivering
PidOf(k) == task[k].row[1]
InFlight(k) == task[k].pc # "idle"
Stored(pid) == pid \in DOMAIN polls

\* C1: at most one delivery per poll: two entry points (tick, daily job,
\* admin send) that attempt the same poll never both reach the gateway's
\* send_poll, and when they target the poll in the same minute one message
\* is sent.
C1_AtMostOneDelivery ==
    /\ \A j, k \in Tasks :
         (Entry(j) # Entry(k) /\ task[j].pc = "send" /\ task[k].pc = "send")
            => PidOf(j) # PidOf(k)
    /\ \A m1, m2 \in sent :
         (m1.pid = m2.pid /\ m1.win = m2.win /\ m1.by # m2.by) => m1 = m2

\* C2: a failed send_poll leaves the poll's last_sent and last_message_id as
\* they were before the attempt.
C2_SendFailureKeepsBookkeeping ==
    [][\A k \in Tasks :
         (SendFail(k) /\ Stored(PidOf(k)))
            => /\ polls'[PidOf(k)].last_sent = polls[PidOf(k)].last_sent
               /\ polls'[PidOf(k)].last_message_id = polls[PidOf(k)].last_message_id]_vars

\* an active interval poll that was never sent
NeverSentInterval(pid) ==
    /\ Stored(pid)
    /\ Truthy(polls[pid].active)
    /\ Truthy(polls[pid].interval_minutes)
    /\ polls[pid].last_sent = 0

\* an active interval poll whose interval has not elapsed since last_sent
NotYetDue(pid) ==
    /\ Stored(pid)
    /\ Truthy(polls[pid].interval_minutes)
    /\ polls[pid].last_sent # 0
    /\ now < polls[pid].last_sent + polls[pid].interval_minutes * SecPerMin

\* what a periodic_check that starts in this state does: see Scan
TickResult == Scan(polls, SelectAll(polls), 1, now)

\* C3: Scenario A: a tick that finds an active, never sent interval poll
\* delivers one (it is in the gateway's send_poll for it when it suspends),
\* and a tick delivers no poll whose interval has not elapsed.
C3_ScenarioA ==
    started =>
        /\ (\E pid \in PollIds : NeverSentInterval(pid))
              => /\ TickResult.pc = "send"
                 /\ NeverSentInterval(SelectAll(polls)[TickResult.i][1])
        /\ TickResult.pc = "send"
              => ~NotYetDue(SelectAll(polls)[TickResult.i][1])

\* what a periodic_check that starts in this state notes about the rows
TickEvals == TickResult.ev

\* C4: a tick treats a row as due (calls send_poll_from_row for it) exactly
\* when the poll is active, has an interval m and was never sent or m minutes
\* have elapsed since last_sent, the boundary included.
C4_IntervalDueRule ==
    \A e \in TickEvals :
        e.called <=>
            /\ e.active = 1
            /\ e.mins > 0
            /\ \/ e.last_sent = 0
               \/ e.now - e.last_sent >= e.mins * SecPerMin

\* C4 witness: a tick at exactly last_sent + m minutes treats the poll as
\* due, next to states where the interval has not elapsed.
C4_Witness ==
    \E e \in TickEvals :
        /\ e.called
        /\ e.last_sent # 0
        /\ e.now = e.last_sent + e.mins * SecPerMin

\* C5: the daily jobs of a poll send at most one message in a minute window.
C5_DailySingleFire ==
    \A m1, m2 \in sent :
        (m1.by = "daily" /\ m2.by = "daily" /\ m1.pid = m2.pid /\ m1.win = m2.win)
            => m1 = m2

\* C6: the 'toggle:' callback on a stored poll flips active.
C6_ToggleFlips ==
    [][\A u \in Pressers, pid \in PollIds :
         (on_callback(u, "toggle", pid) /\ Stored(pid))
            => Truthy(polls'[pid].active) = ~Truthy(polls[pid].active)]_vars

\* C7: a callback of a user who is no admin changes no poll and starts no
\* delivery.
C7_AdminOnly ==
    [][\A u \in Pressers, data \in Datas, pid \in PollIds :
         (on_callback(u, data, pid) /\ ~is_user_admin(u, TRUE))
            => /\ polls' = polls
               /\ task'[ADMIN] = task[ADMIN]]_vars

\* the poll is missing or paused when the entry point re-reads it
MissingOrPaused(pid) == ~Stored(pid) \/ ~Truthy(polls[pid].active)

\* C8: an entry point that finds its poll missing or paused sends nothing
\* and leaves the table as it is.
C8_PausedOrMissingNoOp ==
    [][/\ \A j \in 1..MaxJobs :
            (daily_job_callback(j) /\ MissingOrPaused(jobs[j].pid))
               => polls' = polls /\ sent' = sent /\ ~InFlight(j)'
       /\ \A u \in Pressers, pid \in PollIds :
            (on_callback(u, "send", pid) /\ MissingOrPaused(pid))
               => polls' = polls /\ sent' = sent /\ ~InFlight(ADMIN)']_vars

\* C9: when the delete of the previous message fails, the delivery goes on:
\* the stored last_message_id becomes the new message, last_sent the time,
\* and the pin call follows for a pinned poll.
C9_DeleteFailureNonFatal ==
    [][\A k \in Tasks :
         (DeleteFail(k) /\ Stored(PidOf(k)))
            => /\ polls'[PidOf(k)].last_message_id = task[k].msg
               /\ polls'[PidOf(k)].last_sent = now
               /\ IF Truthy(task[k].row[7])
                  THEN task'[k].pc = "pin" /\ task'[k].msg = task[k].msg
                  ELSE task'[k].msg = NULL]_vars

\* C9 witness: a delivery of a delete_previous poll is at its pin call, the
\* previous message M1 is still in the chat and the table holds the new one.
C9_Witness ==
    \E k \in Tasks :
        /\ task[k].pc = "pin"
        /\ Truthy(task[k].row[10])
        /\ Truthy(task[k].row[9])
        /\ task[k].row[9] \in chat
        /\ Stored(PidOf(k))
        /\ polls[PidOf(k)].last_message_id = task[k].msg
        /\ task[k].msg # task[k].row[9]

\* C10: a pin or delete-previous call that fails sends nothing more and does
\* not put the delivery back into send_poll for that poll, the daily job
\* stays fired, and the bookkeeping of the new message is written by the
\* time the pin call is made.
C10_NoDuplicateAfterFailure ==
    [][\A k \in Tasks :
         /\ (PinFail(k) \/ DeleteFail(k))
               => /\ sent' = sent
                  /\ nextMsg' = nextMsg
                  /\ task'[k].pc = "send" => task'[k].row[1] # PidOf(k)
                  /\ k \in fired => k \in fired'
         /\ (task[k].pc # "pin" /\ task'[k].pc = "pin"
               /\ task'[k].row[1] \in DOMAIN polls')
               => /\ polls'[task'[k].row[1]].last_message_id = task'[k].msg
                  /\ polls'[task'[k].row[1]].last_sent = now']_vars

\* C10 witness: the only message sent belongs to a pinned poll, its delivery
\* is over, the message was never pinned (the pin call failed), the table
\* describes it and nothing else was sent.
C10_Witness ==
    \E m \in sent :
        /\ Stored(m.pid)
        /\ Truthy(polls[m.pid].pinned)
        /\ nextMsg = 2
        /\ m.mid \in chat
        /\ pinMsg = NULL
        /\ \A k \in Tasks : ~InFlight(k)
        /\ polls[m.pid].last_message_id = m.mid
        /\ polls[m.pid].last_sent # 0

\* the rows a periodic_check that starts in this state selects
TickRows == SelectAll(polls)

\* the row is active and its interval test is true at tnow
DueRow(row, tnow) == Truthy(row[9]) /\ IsDue(row[5], row[8], tnow)

\* C11: tick error isolation: when a tick ends, with or without an exception
\* raised by the delivery of one poll, every due row of its scan has been
\* evaluated.
C11_TickErrorIsolation ==
    (started /\ TickResult.pc = "idle") =>
        \A i \in 1..Len(TickRows) :
            DueRow(TickRows[i], now)
                => \E e \in TickEvals : e.pid = TickRows[i][1]

\* C17: the tick does not block on a delivery: by the time the tick first
\* suspends in a gateway call or ends, send_poll_from_row has been called for
\* every due row of its scan.
C17_TickDoesNotBlock ==
    started =>
        \A i \in 1..Len(TickRows) :
            DueRow(TickRows[i], now)
                => \E e \in TickEvals : e.pid = TickRows[i][1] /\ e.called

\* coroutine k enters the gateway's send_poll in this step, coming from its
\* entry point
Starts(k) == task[k].pc = "idle" /\ task'[k].pc = "send"

\* C12: deleted is terminal: a row that appears in the table has an id the
\* table never gave out before, so no step puts a deleted poll back, and a
\* tick, daily job or admin send that starts a delivery does so for a poll
\* that is stored when it starts.
C12_DeletedIsTerminal ==
    [][/\ \A pid \in DOMAIN polls' \ DOMAIN polls : pid > seq
       /\ \A k \in Tasks : Starts(k) => task'[k].row[1] \in DOMAIN polls]_vars

\* C12 witness: the poll was deleted while its delivery was waiting for the
\* delete of the previous message; the bookkeeping write comes next.
C12_Witness ==
    \E k \in Tasks :
        /\ task[k].pc = "delete"
        /\ ~Stored(PidOf(k))
        /\ \E m \in sent : m.pid = PidOf(k) /\ m.mid = task[k].msg

\* C13: last_sent is monotonically non-decreasing: no step lowers the
\* last_sent of a stored poll.
C13_LastSentMonotone ==
    [][\A pid \in DOMAIN polls \cap DOMAIN polls' :
         polls'[pid].last_sent >= polls[pid].last_sent]_vars

\* C13 witness: a poll was delivered in one minute (which wrote last_sent)
\* and its last_sent was written again in a later minute.
C13_Witness ==
    \E m \in sent :
        /\ Stored(m.pid)
        /\ m.win < MinuteNow(polls[m.pid].last_sent)

\* a coroutine is inside send_poll_from_row for the poll
Delivering(pid) == \E k \in Tasks : InFlight(k) /\ PidOf(k) = pid

\* the messages sent for the poll
SentFor(pid) == {m \in sent : m.pid = pid}

\* the id of the message sent last for the poll, NULL when there is none
LatestFor(pid) ==
    IF SentFor(pid) = {} THEN NULL
    ELSE (CHOOSE m \in SentFor(pid) : \A o \in SentFor(pid) : o.mid <= m.mid).mid

\* C14: while no delivery of a stored poll is in flight, its last_message_id
\* is the id of the message sent last for it, or NULL when none was sent.
C14_LastMessageIsLatest ==
    \A pid \in PollIds :
        (Stored(pid) /\ ~Delivering(pid))
            => polls[pid].last_message_id = LatestFor(pid)

\* C18: pause takes effect for all later triggers: a tick or daily job that
\* starts a delivery does so for a poll that is active when it starts, and
\* the toggle callback leaves every delivery in flight as it is.
C18_PauseTakesEffect ==
    [][/\ \A k \in Tasks \ {ADMIN} :
            Starts(k) => /\ task'[k].row[1] \in DOMAIN polls
                         /\ Truthy(polls[task'[k].row[1]].active)
       /\ \A u \in Pressers, pid \in PollIds :
            on_callback(u, "toggle", pid) => task' = task]_vars

\* C18 witness: the poll was paused while a daily job's delivery of it is in
\* flight.
C18_Witness ==
    \E j \in 1..MaxJobs :
        /\ InFlight(j)
        /\ Stored(PidOf(j))
        /\ ~Truthy(polls[PidOf(j)].active)

\* the 'send:' callback finishes in this step: it answers the query
SendCallbackEnds ==
    \/ task[ADMIN].pc # "idle" /\ task'[ADMIN].pc = "idle"
    \/ \E u \in Pressers, pid \in PollIds :
           on_callback(u, "send", pid) /\ task'[ADMIN].pc = "idle"

\* C20: admin send-now reports the real outcome: the 'send:' callback
\* answers 'Sondaggio inviato' only when its delivery sent a message.
C20_SendNowReportsOutcome ==
    [][(SendCallbackEnds /\ answer' = "Sondaggio inviato")
          => (sent' # sent \/ task[ADMIN].msg # NULL)]_vars

\* the poll has an interval / has daily times
HasInterval(pid) == Truthy(polls[pid].interval_minutes)
HasTimes(pid) == polls[pid].schedule_times # NoTimes

\* C15: exactly one trigger variant per stored poll: every stored poll has
\* either interval_minutes or schedule_times, never both and never neither.
C15_OneTriggerVariant ==
    \A pid \in DOMAIN polls : HasInterval(pid) # HasTimes(pid)

\* C16: option count is validated at creation: every stored poll has between
\* 2 and 10 options, and an options answer outside that range leaves the
\* conversation at the options step.
C16_OptionCount ==
    /\ \A pid \in DOMAIN polls :
         Len(polls[pid].options) >= 2 /\ Len(polls[pid].options) <= 10
    /\ conv = "Q_FLOWCHOICE"
         => Len(user_data.options) >= 2 /\ Len(user_data.options) <= 10

\* C19: every active daily-times poll is scanned by the scheduler: when the
\* clock is at one of the HH:MM times of an active stored poll, a daily job
\* of the job queue exists for that poll and time, or the tick delivers the
\* poll.
C19_DailyPollsScheduled ==
    started =>
        \A pid \in DOMAIN polls :
            \A n \in 1..Len(polls[pid].schedule_times) :
                (Truthy(polls[pid].active)
                   /\ MinuteNow(now) = MinuteOf(polls[pid].schedule_times[n]))
                => \/ \E j \in 1..Len(jobs) :
                         /\ jobs[j].pid = pid
                         /\ jobs[j].t = polls[pid].schedule_times[n]
                   \/ \E e \in TickEvals : e.pid = pid /\ e.called

\* C23: delete-previous leaves a single live message: while no delivery of a
\* poll with delete_previous is in flight, every message sent for it other
\* than the one last_message_id references is gone from the chat.
C23_SingleLiveMessage ==
    \A pid \in DOMAIN polls :
        (Truthy(polls[pid].delete_previous) /\ ~Delivering(pid))
            => \A m \in SentFor(pid) :
                   m.mid # polls[pid].last_message_id => m.mid \notin chat

\* the run of migrate is over: it returned or an exception left it
MigrateEnded == mig.pc \in {"done", "raised"}

\* C21: migration copies without loss or overwrite: when a run of migrate is
\* over, every SQLite row whose id was not in Postgres is in Postgres with
\* the same values, and the rows Postgres had are as they were.
C21_MigrationCopies ==
    MigrateEnded =>
        /\ \A id \in (DOMAIN mig.src) \ (DOMAIN mig.pg0) :
              id \in DOMAIN polls /\ polls[id] = mig.src[id]
        /\ \A id \in DOMAIN mig.pg0 :
              id \in DOMAIN polls /\ polls[id] = mig.pg0[id]

\* the steps of the conversation in their order, and leaving it
ConvOrder ==
    {<<END, "Q_QUESTION">>, <<"Q_QUESTION", "Q_OPTIONS">>,
     <<"Q_OPTIONS", "Q_FLOWCHOICE">>, <<"Q_FLOWCHOICE", "Q_INTERVAL">>,
     <<"Q_FLOWCHOICE", "Q_SCHEDULE">>, <<"Q_INTERVAL", "Q_PIN">>,
     <<"Q_SCHEDULE", "Q_PIN">>, <<"Q_PIN", "Q_DELETE_PREV">>,
     <<"Q_DELETE_PREV", END>>}

\* answers that are not valid for their step
InvalidOptions(parts) == Len(OptsOf(parts)) < 2 \/ Len(OptsOf(parts)) > 10
InvalidFlow(txt) == FirstLower(txt) \notin {"i", "t"}
InvalidInterval(txt) == ParseInt(txt) = <<>> \/ ParseInt(txt)[1] <= 0
InvalidTimes(txt) == ~TimesAccepted(txt)

\* the step stays where it is and nothing is stored
StaysPut == conv' = conv /\ polls' = polls

\* C22: creation conversation state machine: a poll is stored only by the
\* delete-previous step, one row per conversation; the steps follow each
\* other in their order (or the conversation is cancelled); an invalid answer
\* at the options, flow-choice, interval or schedule step leaves the step and
\* the table as they are; /createpoll in a private chat ends the conversation
\* and stores nothing.
C22_ConversationMachine ==
    [][/\ polls' # polls
            => /\ conv = "Q_DELETE_PREV" /\ conv' = END
               /\ DOMAIN polls' = DOMAIN polls \cup {seq + 1}
               /\ \A pid \in DOMAIN polls : polls'[pid] = polls[pid]
       /\ conv' # conv
            => <<conv, conv'>> \in ConvOrder \/ (cancel /\ conv' = END)
       /\ \A parts \in OptionAnswers :
            (set_options(parts) /\ InvalidOptions(parts)) => StaysPut
       /\ \A txt \in FlowAnswers :
            (set_flowchoice(txt) /\ InvalidFlow(txt)) => StaysPut
       /\ \A txt \in IntervalAnswers :
            (set_interval(txt) /\ InvalidInterval(txt)) => StaysPut
       /\ \A txt \in TimeAnswers :
            (set_schedule_times(txt) /\ InvalidTimes(txt)) => StaysPut
       /\ createpoll_start("private") => (conv' = END /\ polls' = polls)]_vars

====
